---- MODULE Spec2Model ----
(***************************************************************************)
(* Model of the ink! contract BibliotecaStorage (src/src/lib.rs): a vector *)
(* of books (livros) and the next identifier to hand out (proximo_id).     *)
(*                                                                         *)
(* u32 values are kept at their full 32-bit width.  TLC's integers stop at *)
(* 2^31 - 1, so a u32 is a record of two 16-bit limbs [hi, lo] whose value *)
(* is hi * 2^16 + lo; comparison and saturating_add are computed on limbs. *)
(***************************************************************************)
EXTENDS Integers, Sequences, FiniteSets, TLC

VARIABLES
    livros,      \* BibliotecaStorage.livros : Vec<Livro>
    proximo_id,  \* BibliotecaStorage.proximo_id : u32
    op,          \* the last message called, with its arguments
    ret,         \* the value that message returned
    issued,      \* history: the ids returned by adicionar_livro since Init
    n_add,       \* history: number of adicionar_livro calls since Init
    n_rem        \* history: number of remover_livro calls that returned true

vars == <<livros, proximo_id, op, ret, issued, n_add, n_rem>>

---------------------------------------------------------------------------
(* Bounds of the model *)

\* at most this many adicionar_livro calls in one behaviour
MaxAdds == 3

\* the late initial state has proximo_id = u32::MAX - SatWindow
SatWindow == 1

---------------------------------------------------------------------------
(* u32 *)

\* largest value of a 16-bit limb; two limbs make the u32 of Livro.id
LimbMax == 65535

U32(h, l) == [hi |-> h, lo |-> l]

U32_MAX == U32(LimbMax, LimbMax)

U32Lt(a, b) == a.hi < b.hi \/ (a.hi = b.hi /\ a.lo < b.lo)

U32Le(a, b) == a = b \/ U32Lt(a, b)

\* u32::wrapping_add(x, n) for 0 <= n <= LimbMax: what saturating_add is not
wrapping_add(x, n) ==
    LET s == x.lo + n IN
    IF s <= LimbMax THEN U32(x.hi, s)
    ELSE IF x.hi < LimbMax THEN U32(x.hi + 1, s - LimbMax - 1)
    ELSE U32(0, s - LimbMax - 1)

\* u32::saturating_add(x, n) for 0 <= n <= LimbMax
saturating_add(x, n) ==
    LET s == x.lo + n IN
    IF s <= LimbMax THEN U32(x.hi, s)
    ELSE IF x.hi < LimbMax THEN U32(x.hi + 1, s - LimbMax - 1)
    ELSE U32_MAX

\* u32 subtraction of a small n from U32_MAX (used to name values near it)
BelowMax(n) == U32(LimbMax, LimbMax - n)

---------------------------------------------------------------------------
(* Genero, Livro *)

Generos == {"Ficcao", "Biografia", "Poesia", "Infantil", "Romance", "Outro"}

Livro(i, t, g) == [id |-> i, titulo |-> t, genero |-> g]

---------------------------------------------------------------------------
(* Inputs of the messages *)

TituloInputs == {"Livro A", "Novo"}

GeneroInputs == {"Ficcao", "Romance"}

IdInputs == {U32(0, k) : k \in 1..MaxAdds} \cup {BelowMax(k) : k \in 0..SatWindow}

NoArg == "-"

Call(name, id, titulo, genero) ==
    [name |-> name, id |-> id, titulo |-> titulo, genero |-> genero]

---------------------------------------------------------------------------
(* new() and the states the contract can be in when observation starts *)

\* a constructor that starts the counter at 0: what new is not
new_zero == [livros |-> <<>>, proximo_id |-> U32(0, 0)]

new == [livros |-> <<>>, proximo_id |-> U32(0, 1)]

\* A contract whose proximo_id has been driven up by adicionar_livro calls,
\* each book removed again: n - 1 adds and n - 1 removes from new() leave
\* livros empty and proximo_id = n.  Here n = u32::MAX - SatWindow.
aged == [livros |-> <<>>, proximo_id |-> BelowMax(SatWindow)]

Init ==
    /\ \E s \in {new, aged} :
          /\ livros = s.livros
          /\ proximo_id = s.proximo_id
    /\ op = Call("new", NoArg, NoArg, NoArg)
    /\ ret = NoArg
    /\ issued = {}
    /\ n_add = 0
    /\ n_rem = 0

---------------------------------------------------------------------------
(* adicionar_livro *)

\* Vec::insert(0, x): what push is not
push_front(l, x) == <<x>> \o l

\* Vec::push
push(l, x) == Append(l, x)

\* adicionar_livro that advances proximo_id before stamping the book
adicionar_livro_postinc(s, titulo, genero) ==
    LET id_atual == saturating_add(s.proximo_id, 1)
    IN [livros |-> push(s.livros, Livro(id_atual, titulo, genero)),
        proximo_id |-> id_atual,
        ret |-> id_atual]

\* the state and result of adicionar_livro(titulo, genero) called in state s
adicionar_livro_result(s, titulo, genero) ==
    LET livro == Livro(s.proximo_id, titulo, genero)
        livros1 == push(s.livros, livro)
        id_atual == s.proximo_id
    IN [livros |-> livros1,
        proximo_id |-> saturating_add(s.proximo_id, 1),
        ret |-> id_atual]

\* the message adicionar_livro called with these arguments
AdicionarLivro(titulo, genero) ==
    LET r == adicionar_livro_result(
                 [livros |-> livros, proximo_id |-> proximo_id],
                 titulo, genero)
    IN /\ livros' = r.livros
       /\ proximo_id' = r.proximo_id
       /\ ret' = r.ret
       /\ op' = Call("adicionar_livro", NoArg, titulo, genero)
       /\ issued' = issued \cup {r.ret}
       /\ n_add' = n_add + 1
       /\ n_rem' = n_rem

adicionar_livro ==
    /\ n_add < MaxAdds
    /\ \E titulo \in TituloInputs, genero \in GeneroInputs :
          AdicionarLivro(titulo, genero)

---------------------------------------------------------------------------
(* listar_livros *)

\* iter().rev().cloned().collect(): what clone is not
clone_rev(l) == [i \in 1..Len(l) |-> l[Len(l) + 1 - i]]

\* Vec::clone: an element-by-element copy
clone(l) == [i \in 1..Len(l) |-> l[i]]

listar_livros ==
    /\ ret' = clone(livros)
    /\ op' = Call("listar_livros", NoArg, NoArg, NoArg)
    /\ UNCHANGED <<livros, proximo_id, issued, n_add, n_rem>>

---------------------------------------------------------------------------
(* atualizar_livro *)

RECURSIVE AtualizarLoop(_, _, _, _, _)
\* the for loop of lines 85-92 from index i on: the first book whose id
\* matches is overwritten and the loop returns true; false when none matches
AtualizarLoop(l, i, id, novo_titulo, novo_genero) ==
    IF i > Len(l) THEN [livros |-> l, ret |-> FALSE]
    ELSE IF l[i].id = id
         THEN [livros |-> [l EXCEPT ![i].titulo = novo_titulo,
                                    ![i].genero = novo_genero],
               ret |-> TRUE]
         ELSE AtualizarLoop(l, i + 1, id, novo_titulo, novo_genero)

\* the loop without its early return: every matching book is overwritten
atualizar_livro_all(l, id, novo_titulo, novo_genero) ==
    [livros |-> [i \in 1..Len(l) |->
                    IF l[i].id = id
                    THEN [l[i] EXCEPT !.titulo = novo_titulo, !.genero = novo_genero]
                    ELSE l[i]],
     ret |-> \E i \in 1..Len(l) : l[i].id = id]

\* the loop with `livro.id >= id` for its test: the first book whose id is
\* at least id is overwritten
atualizar_livro_ge(l, id, novo_titulo, novo_genero) ==
    IF \E i \in 1..Len(l) : U32Le(id, l[i].id)
    THEN LET k == CHOOSE i \in 1..Len(l) :
                      /\ U32Le(id, l[i].id)
                      /\ \A j \in 1..(i - 1) : ~U32Le(id, l[j].id)
         IN [livros |-> [l EXCEPT ![k].titulo = novo_titulo,
                                  ![k].genero = novo_genero],
             ret |-> TRUE]
    ELSE [livros |-> l, ret |-> FALSE]

\* an update that inserts the book when no book has the id
atualizar_livro_upsert(l, id, novo_titulo, novo_genero) ==
    LET r == AtualizarLoop(l, 1, id, novo_titulo, novo_genero) IN
    IF r.ret THEN r
    ELSE [livros |-> Append(l, Livro(id, novo_titulo, novo_genero)), ret |-> FALSE]

atualizar_livro_result(l, id, novo_titulo, novo_genero) ==
    AtualizarLoop(l, 1, id, novo_titulo, novo_genero)

\* the message atualizar_livro called with these arguments
AtualizarLivro(id, novo_titulo, novo_genero) ==
    LET r == atualizar_livro_result(livros, id, novo_titulo, novo_genero)
    IN /\ livros' = r.livros
       /\ ret' = r.ret
       /\ op' = Call("atualizar_livro", id, novo_titulo, novo_genero)
       /\ UNCHANGED <<proximo_id, issued, n_add, n_rem>>

atualizar_livro ==
    \E id \in IdInputs, novo_titulo \in TituloInputs, novo_genero \in GeneroInputs :
        AtualizarLivro(id, novo_titulo, novo_genero)

---------------------------------------------------------------------------
(* remover_livro *)

\* Iterator::position: the index of the first book with that id, 0 for None
position(l, id) ==
    IF \E i \in 1..Len(l) : l[i].id = id
    THEN CHOOSE i \in 1..Len(l) :
             /\ l[i].id = id
             /\ \A j \in 1..(i - 1) : l[j].id # id
    ELSE 0

\* Vec::swap_remove(index): the last element takes the place of the removed one
swap_remove(l, index) ==
    [i \in 1..(Len(l) - 1) |-> IF i = index THEN l[Len(l)] ELSE l[i]]

\* Vec::remove(index): the later elements shift left by one
remove(l, index) ==
    [i \in 1..(Len(l) - 1) |-> IF i < index THEN l[i] ELSE l[i + 1]]

RECURSIVE Retain(_, _)
\* Vec::retain(|livro| livro.id != id)
Retain(l, id) ==
    IF l = <<>> THEN <<>>
    ELSE IF Head(l).id = id THEN Retain(Tail(l), id)
         ELSE <<Head(l)>> \o Retain(Tail(l), id)

\* a removal with retain: every book with the id is deleted
remover_livro_retain(l, id) ==
    [livros |-> Retain(l, id), ret |-> \E i \in 1..Len(l) : l[i].id = id]

remover_livro_result(l, id) ==
    LET index == position(l, id) IN
    IF index # 0
    THEN [livros |-> remove(l, index), ret |-> TRUE]
    ELSE [livros |-> l, ret |-> FALSE]

remover_livro ==
    \E id \in IdInputs :
        LET r == remover_livro_result(livros, id)
        IN /\ livros' = r.livros
           /\ ret' = r.ret
           /\ op' = Call("remover_livro", id, NoArg, NoArg)
           /\ n_rem' = IF r.ret THEN n_rem + 1 ELSE n_rem
           /\ UNCHANGED <<proximo_id, issued, n_add>>

---------------------------------------------------------------------------
(* The contract: any message, one at a time *)

Next ==
    \/ adicionar_livro
    \/ listar_livros
    \/ atualizar_livro
    \/ remover_livro

Spec == Init /\ [][Next]_vars

\* the contract observed from its construction on
InitNew ==
    /\ Init
    /\ livros = new.livros
    /\ proximo_id = new.proximo_id

SpecNew == InitNew /\ [][Next]_vars

---------------------------------------------------------------------------
(* impl TryFrom<u8> for Genero, and a caller that decodes every genre code *)
(* with it before calling a message                                        *)

\* the values of a u8
U8 == 0..255

Ok(v) == [ok |-> TRUE, val |-> v]

Err(e) == [ok |-> FALSE, err |-> e]

\* a decoder whose last arm accepts every code: what try_from is not
try_from_lenient(value) ==
    CASE value = 0 -> Ok("Ficcao")
      [] value = 1 -> Ok("Biografia")
      [] value = 2 -> Ok("Poesia")
      [] value = 3 -> Ok("Infantil")
      [] value = 4 -> Ok("Romance")
      [] OTHER -> Ok("Outro")

\* Genero::try_from(value: u8); the message is "Valor invalido para Genero"
\* with its accent dropped
try_from(value) ==
    CASE value = 0 -> Ok("Ficcao")
      [] value = 1 -> Ok("Biografia")
      [] value = 2 -> Ok("Poesia")
      [] value = 3 -> Ok("Infantil")
      [] value = 4 -> Ok("Romance")
      [] value = 5 -> Ok("Outro")
      [] OTHER -> Err("Valor invalido para Genero")

\* at most this many adicionar_livro calls in a behaviour of SpecDecode
MaxDecodedAdds == 1

\* the caller decodes a genre code
try_from_u8 ==
    \E value \in U8 :
        /\ op' = Call("try_from", value, NoArg, NoArg)
        /\ ret' = try_from(value)
        /\ UNCHANGED <<livros, proximo_id, issued, n_add, n_rem>>

\* the caller passes the Genero it has just decoded to adicionar_livro
adicionar_livro_decoded ==
    /\ op.name = "try_from"
    /\ ret.ok
    /\ n_add < MaxDecodedAdds
    /\ \E titulo \in TituloInputs : AdicionarLivro(titulo, ret.val)

\* the caller passes the Genero it has just decoded to atualizar_livro
atualizar_livro_decoded ==
    /\ op.name = "try_from"
    /\ ret.ok
    /\ \E id \in IdInputs, novo_titulo \in TituloInputs :
          AtualizarLivro(id, novo_titulo, ret.val)

NextDecode ==
    \/ try_from_u8
    \/ adicionar_livro_decoded
    \/ atualizar_livro_decoded
    \/ listar_livros
    \/ remover_livro

SpecDecode == InitNew /\ [][NextDecode]_vars

---------------------------------------------------------------------------
(* Vocabulary of the properties, written without the operators above *)

Live(l, id) == \E i \in 1..Len(l) : l[i].id = id

\* k is the index of the first book of l whose id is id
IsFirst(l, id, k) ==
    /\ k \in 1..Len(l)
    /\ l[k].id = id
    /\ \A j \in 1..(k - 1) : l[j].id # id

\* b is the u32 one above a
IsSucc(a, b) ==
    \/ a.lo < LimbMax /\ b.hi = a.hi /\ b.lo = a.lo + 1
    \/ a.lo = LimbMax /\ a.hi < LimbMax /\ b.hi = a.hi + 1 /\ b.lo = 0

---------------------------------------------------------------------------
(* Properties *)

\* C1: in every reachable state the ids of the live books are pairwise
\* distinct: no two entries of livros share an id.
C1_LiveIdsDistinct ==
    \A i, j \in 1..Len(livros) : i # j => livros[i].id # livros[j].id

\* C2: in every reachable state proximo_id is strictly greater than every id
\* an earlier adicionar_livro call has returned, removed books included.
C2_NextIdAboveIssued ==
    \A i \in issued : U32Lt(i, proximo_id)

\* C3: each adicionar_livro call returns an id strictly greater than the id
\* returned by every earlier adicionar_livro call, whatever happened between.
C3_AddReturnsIncreasing ==
    [][op'.name = "adicionar_livro" => \A i \in issued : U32Lt(i, ret')]_vars

\* C4: proximo_id never decreases: atualizar_livro, remover_livro and
\* listar_livros leave it unchanged, adicionar_livro below u32::MAX raises it
\* by exactly one, and adicionar_livro at u32::MAX leaves it at u32::MAX.
C4_NextIdStep ==
    [][/\ U32Le(proximo_id, proximo_id')
       /\ op'.name \in {"atualizar_livro", "remover_livro", "listar_livros"}
             => proximo_id' = proximo_id
       /\ op'.name = "adicionar_livro" /\ proximo_id # U32_MAX
             => IsSucc(proximo_id, proximo_id')
       /\ op'.name = "adicionar_livro" /\ proximo_id = U32_MAX
             => proximo_id' = U32_MAX]_vars

\* C4 witness: an adicionar_livro call made with proximo_id = u32::MAX (it
\* returned u32::MAX) has left proximo_id at u32::MAX.
C4_Witness ==
    /\ op.name = "adicionar_livro"
    /\ ret = U32_MAX
    /\ proximo_id = U32_MAX

\* C5: adicionar_livro(titulo, genero) returns the value proximo_id had before
\* the call, and livros afterwards is the previous livros with one new book
\* (that id, the given titulo and genero) at the end, every earlier book
\* keeping its id, titulo, genero and position.
C5_AddAppends ==
    [][op'.name = "adicionar_livro" =>
          /\ ret' = proximo_id
          /\ Len(livros') = Len(livros) + 1
          /\ \A i \in 1..Len(livros) : livros'[i] = livros[i]
          /\ livros'[Len(livros')].id = proximo_id
          /\ livros'[Len(livros')].titulo = op'.titulo
          /\ livros'[Len(livros')].genero = op'.genero]_vars

\* C5 witness: adicionar_livro has appended a book behind two others of a
\* different titulo; the returned id is on the last book.
C5_Witness ==
    /\ op.name = "adicionar_livro"
    /\ Len(livros) = 3
    /\ livros[3] = [id |-> ret, titulo |-> op.titulo, genero |-> op.genero]
    /\ livros[1].titulo # op.titulo
    /\ livros[2].genero # op.genero

\* C6: atualizar_livro(id, novo_titulo, novo_genero) returns true iff some
\* live book has that id; when it does, the first book with that id gets the
\* new titulo and genero and keeps its id and position, and every other book,
\* the length of livros and proximo_id are unchanged.
C6_UpdateFirstMatch ==
    [][op'.name = "atualizar_livro" =>
          /\ ret' = Live(livros, op'.id)
          /\ proximo_id' = proximo_id
          /\ ret' = TRUE =>
                \E k \in 1..Len(livros) :
                    /\ IsFirst(livros, op'.id, k)
                    /\ Len(livros') = Len(livros)
                    /\ livros'[k].id = livros[k].id
                    /\ livros'[k].titulo = op'.titulo
                    /\ livros'[k].genero = op'.genero
                    /\ \A i \in 1..Len(livros) : i # k => livros'[i] = livros[i]]_vars

\* C6 witness: atualizar_livro returned true in a catalog of three books and
\* the middle book, alone, carries the new titulo and genero.
C6_Witness ==
    /\ op.name = "atualizar_livro"
    /\ ret = TRUE
    /\ Len(livros) = 3
    /\ livros[2] = [id |-> op.id, titulo |-> op.titulo, genero |-> op.genero]
    /\ livros[1].titulo # op.titulo
    /\ livros[3].titulo # op.titulo

\* C7: atualizar_livro or remover_livro called with an id that no live book
\* has returns false and leaves livros and proximo_id as they were.
C7_MissingIdNoChange ==
    [][/\ op'.name \in {"atualizar_livro", "remover_livro"}
       /\ ~Live(livros, op'.id)
       => /\ ret' = FALSE
          /\ livros' = livros
          /\ proximo_id' = proximo_id]_vars

\* C7 witness: remover_livro returned false for an id that had been issued
\* and removed before, in a catalog that still holds books.
C7_Witness ==
    /\ op.name = "remover_livro"
    /\ ret = FALSE
    /\ op.id \in issued
    /\ n_rem >= 1
    /\ Len(livros) >= 2

\* C8: remover_livro(id) returns true iff some live book has that id; when it
\* does, exactly the first book with that id is deleted, the others keep
\* their relative order and content, and proximo_id is unchanged.
C8_RemoveFirstMatch ==
    [][op'.name = "remover_livro" =>
          /\ ret' = Live(livros, op'.id)
          /\ proximo_id' = proximo_id
          /\ ret' = TRUE =>
                \E k \in 1..Len(livros) :
                    /\ IsFirst(livros, op'.id, k)
                    /\ Len(livros') = Len(livros) - 1
                    /\ \A i \in 1..(k - 1) : livros'[i] = livros[i]
                    /\ \A i \in k..(Len(livros) - 1) : livros'[i] = livros[i + 1]]_vars

\* C8 witness: books 1, 2, 3 were added, remover_livro(2) returned true and
\* livros is book 1 followed by book 3.
C8_Witness ==
    /\ op.name = "remover_livro"
    /\ op.id = U32(0, 2)
    /\ ret = TRUE
    /\ n_add = 3
    /\ n_rem = 1
    /\ Len(livros) = 2
    /\ livros[1].id = U32(0, 1)
    /\ livros[2].id = U32(0, 3)

\* C9: when remover_livro(K) has returned true no live book has id K, so a
\* second remover_livro(K) or an atualizar_livro(K, ..) would return false.
C9_RemovedIdGone ==
    (op.name = "remover_livro" /\ ret = TRUE) => ~Live(livros, op.id)

\* C10: listar_livros returns a sequence equal to livros (same books, same
\* order, same length), the empty catalog included, and leaves livros and
\* proximo_id unchanged.
C10_ListIsCopy ==
    [][op'.name = "listar_livros" =>
          /\ Len(ret') = Len(livros)
          /\ \A i \in 1..Len(livros) : ret'[i] = livros[i]
          /\ livros' = livros
          /\ proximo_id' = proximo_id]_vars

\* C10 witness: listar_livros has returned the three books of a catalog whose
\* first and last books differ.
C10_Witness ==
    /\ op.name = "listar_livros"
    /\ Len(livros) = 3
    /\ Len(ret) = 3
    /\ ret[1] = livros[1]
    /\ ret[3] = livros[3]
    /\ livros[1] # livros[3]

\* C11: in every reachable state livros is in strictly ascending id order:
\* of any two live books the one earlier in the sequence has the smaller id.
C11_AscendingIds ==
    \A i, j \in 1..Len(livros) : i < j => U32Lt(livros[i].id, livros[j].id)

\* C12: a newly constructed contract has livros empty and proximo_id = 1; the
\* first adicionar_livro on it returns 1, and a listar_livros that follows
\* returns exactly one book: id 1 with the titulo and genero passed to the add.
C12_FirstAddRoundTrip ==
    /\ [](op.name = "new" => livros = <<>> /\ proximo_id = U32(0, 1))
    /\ [](op.name = "adicionar_livro" /\ n_add = 1 => ret = U32(0, 1))
    /\ [][op.name = "adicionar_livro" /\ n_add = 1 /\ op'.name = "listar_livros"
             => /\ Len(ret') = 1
                /\ ret'[1].id = U32(0, 1)
                /\ ret'[1].titulo = op.titulo
                /\ ret'[1].genero = op.genero]_vars

\* C12 witness: after the first adicionar_livro("Livro A", Ficcao) on a new
\* contract, listar_livros has returned the one book 1, "Livro A", Ficcao.
C12_Witness ==
    /\ op.name = "listar_livros"
    /\ n_add = 1
    /\ n_rem = 0
    /\ Len(ret) = 1
    /\ ret[1] = [id |-> U32(0, 1), titulo |-> "Livro A", genero |-> "Ficcao"]

\* C13: Genero::try_from maps the codes 0, 1, 2, 3, 4, 5 to Ficcao, Biografia,
\* Poesia, Infantil, Romance, Outro and returns an error for every other u8
\* (6 to 255); so when the messages get their Genero from the decoder only,
\* every live book's genero is one of the six variants, a rejected code
\* changes neither livros nor proximo_id, and no message is called with it.
C13_DecoderGuardsCatalog ==
    /\ [](op.name = "try_from" =>
             /\ op.id = 0 => ret = [ok |-> TRUE, val |-> "Ficcao"]
             /\ op.id = 1 => ret = [ok |-> TRUE, val |-> "Biografia"]
             /\ op.id = 2 => ret = [ok |-> TRUE, val |-> "Poesia"]
             /\ op.id = 3 => ret = [ok |-> TRUE, val |-> "Infantil"]
             /\ op.id = 4 => ret = [ok |-> TRUE, val |-> "Romance"]
             /\ op.id = 5 => ret = [ok |-> TRUE, val |-> "Outro"]
             /\ op.id \in 6..255 => ret.ok = FALSE)
    /\ [](\A i \in 1..Len(livros) :
             livros[i].genero \in
                 {"Ficcao", "Biografia", "Poesia", "Infantil", "Romance", "Outro"})
    /\ [][op'.name = "try_from" => livros' = livros /\ proximo_id' = proximo_id]_vars
    /\ [][op.name = "try_from" /\ op.id \in 6..255
             => op'.name \notin {"adicionar_livro", "atualizar_livro"}]_vars

\* C13 witness: code 5 was decoded to Outro and reached the catalog in a live
\* book, and code 6 has just been rejected.
C13_Witness ==
    /\ op.name = "try_from"
    /\ op.id = 6
    /\ ret.ok = FALSE
    /\ Len(livros) = 1
    /\ livros[1].genero = "Outro"

\* C14: in every reachable state every live book's id is at least 1 and at
\* most proximo_id, and strictly below proximo_id whenever proximo_id is below
\* u32::MAX; no live book has id 0.
C14_LiveIdsInRange ==
    \A i \in 1..Len(livros) :
        /\ livros[i].id # U32(0, 0)
        /\ U32Le(U32(0, 1), livros[i].id)
        /\ U32Le(livros[i].id, proximo_id)
        /\ proximo_id # U32_MAX => U32Lt(livros[i].id, proximo_id)

\* C14 witness: proximo_id has saturated and the catalog holds a book stamped
\* below u32::MAX next to a book whose id equals proximo_id.
C14_Witness ==
    /\ proximo_id = U32_MAX
    /\ Len(livros) >= 2
    /\ U32Lt(livros[1].id, proximo_id)
    /\ livros[Len(livros)].id = proximo_id

\* C15: the id of a live book never changes: a book present before and after
\* an operation has the same id, and its titulo and genero are the same too
\* unless the operation is an atualizar_livro that names its id.  (A book that
\* stays keeps its index, or moves down by one behind a removed book.)
C15_IdImmutable ==
    [][/\ op'.name = "adicionar_livro" =>
             \A i \in 1..Len(livros) : livros'[i] = livros[i]
       /\ op'.name = "listar_livros" => livros' = livros
       /\ op'.name = "atualizar_livro" =>
             /\ Len(livros') = Len(livros)
             /\ \A i \in 1..Len(livros) :
                   /\ livros'[i].id = livros[i].id
                   /\ livros'[i] # livros[i] => livros[i].id = op'.id
       /\ op'.name = "remover_livro" =>
             \/ livros' = livros
             \/ \E k \in 1..Len(livros) :
                   /\ Len(livros') = Len(livros) - 1
                   /\ \A i \in 1..(k - 1) : livros'[i] = livros[i]
                   /\ \A i \in k..(Len(livros) - 1) : livros'[i] = livros[i + 1]]_vars

\* C15 witness: atualizar_livro has rewritten the second of two books, named
\* by its id, and the first book, of another id, has another titulo and genero.
C15_Witness ==
    /\ op.name = "atualizar_livro"
    /\ ret = TRUE
    /\ Len(livros) = 2
    /\ livros[2] = [id |-> op.id, titulo |-> op.titulo, genero |-> op.genero]
    /\ livros[1].id # op.id
    /\ livros[1].titulo # op.titulo
    /\ livros[1].genero # op.genero

\* C16: the number of live books equals the number of adicionar_livro calls
\* minus the number of remover_livro calls that returned true; adicionar_livro
\* grows livros by exactly one, a remover_livro that returns true shrinks it by
\* exactly one, and atualizar_livro and listar_livros never change its length.
C16_LengthAccounting ==
    /\ [](Len(livros) = n_add - n_rem)
    /\ [][/\ op'.name = "adicionar_livro" => Len(livros') = Len(livros) + 1
          /\ op'.name = "remover_livro" /\ ret' = TRUE
                => Len(livros') = Len(livros) - 1
          /\ op'.name = "remover_livro" /\ ret' = FALSE
                => Len(livros') = Len(livros)
          /\ op'.name \in {"atualizar_livro", "listar_livros"}
                => Len(livros') = Len(livros)]_vars

\* C16 witness: three books were added, two of them with the same id, and a
\* remover_livro of that id returned true: two books are left.
C16_Witness ==
    /\ op.name = "remover_livro"
    /\ ret = TRUE
    /\ op.id = U32_MAX
    /\ n_add = 3
    /\ n_rem = 1
    /\ Len(livros) = 2
    /\ livros[2].id = U32_MAX

\* C17: atualizar_livro is idempotent: when atualizar_livro(id, t, g) is called
\* again right after itself with the same arguments, it returns the same
\* boolean and leaves livros and proximo_id as the first call left them.
C17_UpdateIdempotent ==
    [][/\ op.name = "atualizar_livro"
       /\ op'.name = "atualizar_livro"
       /\ op'.id = op.id
       /\ op'.titulo = op.titulo
       /\ op'.genero = op.genero
       => /\ ret' = ret
          /\ livros' = livros
          /\ proximo_id' = proximo_id]_vars

\* C17 witness: atualizar_livro has returned true on a catalog where two books
\* share the id it names; the first carries the new titulo and genero and the
\* second does not, however often the call is repeated.
C17_Witness ==
    /\ op.name = "atualizar_livro"
    /\ ret = TRUE
    /\ \E i \in 1..(Len(livros) - 1) :
          /\ livros[i] = [id |-> op.id, titulo |-> op.titulo, genero |-> op.genero]
          /\ livros[i + 1].id = op.id
          /\ livros[i + 1].titulo # op.titulo
          /\ \A j \in 1..(i - 1) : livros[j].id # op.id

\* C18: adicionar_livro immediately followed by remover_livro of the id it
\* returned gives back the livros of before the add (the remove returns true
\* and deletes the book just added, not another one), while proximo_id keeps
\* the value the add left.
C18_AddThenRemoveRestores ==
    [][op.name = "adicionar_livro" /\ op'.name = "remover_livro" /\ op'.id = ret
          => /\ ret' = TRUE
             /\ livros' = SubSeq(livros, 1, Len(livros) - 1)
             /\ proximo_id' = proximo_id]_vars

====
